---- MODULE Spec2Model ----
(***************************************************************************)
(* Model of erkl/wire: the cancellable Transport.RoundTrip, the two-phase  *)
(* connection release (conn.maybeClose), the idle pool with its reaper and *)
(* the response body stream.                                               *)
(*                                                                         *)
(* Strings of the program are sequences of tokens; errors and responses     *)
(* are strings, "nil" being Go's nil.  The first connection a caller's     *)
(* dial constructs is named by the caller; later ones take a spare name.   *)
(***************************************************************************)
EXTENDS Integers, Sequences, FiniteSets, TLC

\* Bounds of the model.
NumCalls == 2
MaxTime == 2
NumConns == 3
MaxPoolTime == 3
MaxAfter == 2
MaxChain == 3

\* Program constants.
halfReused == 1
halfClosed == 2
KeepAliveTimeout == 1
Nil == 0

Calls == 1..NumCalls
Conns == 1..NumConns
Tasks == {"x", "w", "u"}

\* The requests of the model: plain HTTP to one host that names no port,
\* or a scheme the transport does not support.
Schemes == {"http", "ftp"}
Remotes == {<<"h">>}

\* The requests made of the idle pool on its own: both maps, an authority
\* that names no port.
PoolSchemes == {"http", "https"}
PoolRemotes == {<<"h">>}

VARIABLES call, conn, mc, t, now, w, user

vars == <<call, conn, mc, t, now, w, user>>

-----------------------------------------------------------------------------
\* Address normalisation.

RECURSIVE colons(_)
colons(addr) ==
    IF addr = <<>> THEN 0
    ELSE (IF Head(addr) = ":" THEN 1 ELSE 0) + colons(Tail(addr))

\* rbrack after the loop: whether the last colon is preceded by "]".
rbrack(addr) ==
    LET idx == {i \in 1..Len(addr) : addr[i] = ":"}
        last == CHOOSE i \in idx : \A j \in idx : j <= i
    IN  idx # {} /\ last > 1 /\ addr[last - 1] = "]"

hasPort(addr) ==
    IF Len(addr) = 0 THEN FALSE
    ELSE CASE colons(addr) = 0 -> FALSE
           [] colons(addr) = 1 -> TRUE
           [] OTHER -> addr[1] = "[" /\ rbrack(addr)

\* net.JoinHostPort brackets a host that contains a colon.
JoinHostPort(host, port) ==
    IF colons(host) > 0 THEN <<"[">> \o host \o <<"]", ":", port>>
    ELSE host \o <<":", port>>

defaultPort(addr, port) ==
    IF ~hasPort(addr) THEN JoinHostPort(addr, "80") ELSE addr

Addrs == {defaultPort(r, p) : r \in Remotes \cup PoolRemotes, p \in {"80", "443"}}

-----------------------------------------------------------------------------
\* Initial values.

NoMC == [st |-> "none", reuse |-> FALSE, prev |-> 0]

conn0 ==
    [made |-> FALSE, state |-> 0, tls |-> FALSE, addr |-> <<>>,
     idleSince |-> 0, next |-> Nil, closes |-> 0, reaped |-> FALSE,
     deadline |-> 0]

call0 ==
    [pc |-> "idle", cv |-> "nochan", got |-> "none", syn |-> 0, ch |-> <<>>,
     req |-> <<>>, dl |-> "none", hdl |-> -1,
     dpc |-> "off", dref |-> "none", dtls |-> FALSE, daddr |-> <<>>,
     dc |-> Nil, derr |-> "nil",
     c |-> Nil, bc |-> Nil, xpc |-> "off", xr |-> "nil", xe |-> "nil",
     wpc |-> "off",
     body |-> FALSE, berr |-> "nil", bclosed |-> FALSE, breuse |-> FALSE,
     ucalls |-> 0, late |-> FALSE,
     returned |-> FALSE, rresp |-> "nil", rerr |-> "nil", rbody |-> 0,
     wrep |-> "none", rrep |-> "none",
     parks |-> 0, closes |-> 0, parkA |-> <<>>, wonA |-> FALSE, wonB |-> FALSE,
     rsize |-> "none", closing |-> FALSE]

emptyMap == [a \in Addrs |-> Nil]

\* No middleware chain is being built or called.
w0 == [pc |-> "off", m |-> <<>>, rt |-> <<>>, cur |-> <<>>, trace |-> <<>>,
       ret |-> "none"]

\* What the user of a response body has done since closing it.
user0 == [reads |-> 0, closes |-> 0, deadlines |-> 0]

TransportInit ==
    /\ call = [i \in Calls |-> call0]
    /\ conn = [c \in Conns |-> conn0]
    /\ mc = [i \in Calls |-> [k \in Tasks |-> NoMC]]
    /\ t = [idleTCP |-> [nil |-> TRUE, m |-> emptyMap],
            idleTLS |-> [nil |-> TRUE, m |-> emptyMap],
            cleaning |-> FALSE, cleaners |-> 0]
    /\ now = 0
    /\ user = [i \in Calls |-> user0]

Init == TransportInit /\ w = w0

-----------------------------------------------------------------------------
\* conn.go

\* conn.Close: the buffer goes back to the buffer pool, the raw stream is
\* closed.  closes counts the calls made on the connection; reaped records
\* that the reaper made one.
Close(cn, c) == [cn EXCEPT ![c].closes = @ + 1]

newConn(cn, c, tls, addr) ==
    [cn EXCEPT ![c] = [conn0 EXCEPT !.made = TRUE, !.tls = tls, !.addr = addr]]

halfOf(reuse) == IF reuse THEN halfReused ELSE halfClosed

\* maybeClose, the atomic swap: the connection after it ...
swapState(cn, c, reuse) == [cn EXCEPT ![c].state = halfOf(reuse)]

\* A maybeClose that goes on to its terminal action whatever prev is.
afterSwapFirstActs(cn, c, reuse) ==
    [st |-> "term", reuse |-> reuse, prev |-> cn[c].state]

\* ... and what the caller still has to do: nothing when prev is 0.
afterSwap(cn, c, reuse) ==
    IF cn[c].state = 0 THEN NoMC
    ELSE [st |-> "term", reuse |-> reuse, prev |-> cn[c].state]

\* A maybeClose that parks on its own half's verdict alone.
recycleOwnVerdict(reuse, prev) == reuse

\* maybeClose, the decision of the half that finishes second.
recycle(reuse, prev) == reuse /\ prev = halfReused

-----------------------------------------------------------------------------
\* The idle pool.

idleMap(tr, tls) == IF tls THEN tr.idleTLS ELSE tr.idleTCP

\* put: the map after linking c at the head of its bucket.
put(m, addr, c) == [nil |-> FALSE, m |-> [m.m EXCEPT ![addr] = c]]

\* A putIdle that never starts the reaper.
startsReaperNever(tr) == FALSE

\* A putIdle that starts a reaper without looking at the flag.
startsReaperAlways(tr) == KeepAliveTimeout > 0

\* putIdle: whether it starts the reaper goroutine.
startsReaper(tr) == ~tr.cleaning /\ KeepAliveTimeout > 0

\* A putIdle that links the connection behind the head of its bucket.
putIdleBehind(c) ==
    LET tls == conn[c].tls
        m == idleMap(t, tls)
        h == m.m[conn[c].addr]
        start == startsReaper(t)
    IN  /\ conn' = IF h = Nil
                   THEN [conn EXCEPT ![c].idleSince = now, ![c].next = Nil]
                   ELSE [conn EXCEPT ![c].idleSince = now,
                                     ![c].next = conn[h].next, ![h].next = c]
        /\ t' = [t EXCEPT
                   !.idleTCP = IF tls \/ h # Nil THEN @ ELSE put(@, conn[c].addr, c),
                   !.idleTLS = IF tls /\ h = Nil THEN put(@, conn[c].addr, c) ELSE @,
                   !.cleaning = @ \/ start,
                   !.cleaners = IF start THEN @ + 1 ELSE @]

\* putIdle, under the mutex: stamp, link, start the reaper if needed.
putIdle(c) ==
    LET tls == conn[c].tls
        m == idleMap(t, tls)
        start == startsReaper(t)
    IN  /\ conn' = [conn EXCEPT ![c].idleSince = now,
                                ![c].next = m.m[conn[c].addr]]
        /\ t' = [t EXCEPT
                   !.idleTCP = IF tls THEN @ ELSE put(@, conn[c].addr, c),
                   !.idleTLS = IF tls THEN put(@, conn[c].addr, c) ELSE @,
                   !.cleaning = @ \/ start,
                   !.cleaners = IF start THEN @ + 1 ELSE @]

RECURSIVE chain(_, _, _)
chain(cn, c, fuel) ==
    IF c = Nil \/ fuel = 0 THEN <<>>
    ELSE <<c>> \o chain(cn, cn[c].next, fuel - 1)

Bucket(cn, m, a) == chain(cn, m[a], NumConns + 1)

\* A reaper that also closes what has been idle for exactly the timeout.
BeforeOrAt(cn, c, cutoff) == cn[c].idleSince <= cutoff

Before(cn, c, cutoff) == cn[c].idleSince < cutoff

\* The number of connections drop keeps at the head of a bucket: none when
\* the head is expired, else all up to the first expired one.
kept(cn, b, cutoff) ==
    IF b = <<>> \/ Before(cn, b[1], cutoff) THEN 0
    ELSE LET old == {j \in 1..Len(b) : Before(cn, b[j], cutoff)}
         IN  IF old = {} THEN Len(b)
             ELSE (CHOOSE j \in old : \A l \in old : j <= l) - 1

dropped(cn, m, cutoff) ==
    UNION {LET b == Bucket(cn, m, a)
           IN  {b[j] : j \in (kept(cn, b, cutoff) + 1)..Len(b)} : a \in Addrs}

\* drop: the map afterwards (a bucket whose head is expired is deleted).
dropMap(cn, m, cutoff) ==
    [a \in Addrs |->
        IF kept(cn, Bucket(cn, m, a), cutoff) = 0 THEN Nil ELSE m[a]]

\* drop: the connections afterwards (the expired ones closed, last.next
\* reset; the closed ones keep their next pointers).
dropConn(cn, m, cutoff) ==
    [c \in Conns |->
        LET isLast == \E a \in Addrs :
                        LET b == Bucket(cn, m, a)
                            k == kept(cn, b, cutoff)
                        IN  k > 0 /\ b[k] = c
        IN  IF c \in dropped(cn, m, cutoff)
            THEN [cn[c] EXCEPT !.closes = @ + 1, !.reaped = TRUE]
            ELSE IF isLast THEN [cn[c] EXCEPT !.next = Nil]
            ELSE cn[c]]

\* One tick of the reaper goroutine, under the mutex.
clean ==
    /\ t.cleaners > 0
    /\ LET cutoff == now - KeepAliveTimeout
           cn1 == dropConn(conn, t.idleTCP.m, cutoff)
           m1 == dropMap(conn, t.idleTCP.m, cutoff)
           cn2 == dropConn(cn1, t.idleTLS.m, cutoff)
           m2 == dropMap(cn1, t.idleTLS.m, cutoff)
           halt == m1 = emptyMap /\ m2 = emptyMap
       IN  /\ conn' = cn2
           /\ t' = IF halt
                   THEN [idleTCP |-> [nil |-> TRUE, m |-> emptyMap],
                         idleTLS |-> [nil |-> TRUE, m |-> emptyMap],
                         cleaning |-> FALSE, cleaners |-> t.cleaners - 1]
                   ELSE [t EXCEPT !.idleTCP.m = m1, !.idleTLS.m = m2]
           \* a dial that read the map field before this tick now holds a
           \* reference to a discarded (empty) map
           /\ call' = [i \in Calls |->
                         IF halt /\ call[i].dref = "cur"
                         THEN [call[i] EXCEPT !.dref = "stale"] ELSE call[i]]
    /\ UNCHANGED <<mc, now, w, user>>

Pooled == \E a \in Addrs : t.idleTCP.m[a] # Nil \/ t.idleTLS.m[a] # Nil

\* time.Now advances.  Only its distance to the idleSince of a parked
\* connection is ever observed.
TickTo(max) ==
    /\ now < max
    /\ Pooled
    /\ now' = now + 1
    /\ UNCHANGED <<call, conn, mc, t, w, user>>

Tick == TickTo(MaxTime)

-----------------------------------------------------------------------------
\* Transport.RoundTrip and roundTripCancel.

\* A cancelled round-trip that hands the channel's value back as it is.
cancelErrVerbatim(v) == v

\* The error a cancelled round-trip returns for the value the cancel
\* channel delivered.
cancelErr(v) == IF v = "nil" THEN "ErrNilCancel" ELSE v

\* RoundTrip returns; the deferred req.Body.Close() runs (rbody counts the
\* calls of it).
return(cl, resp, err) ==
    [cl EXCEPT !.pc = "done", !.returned = TRUE, !.rresp = resp, !.rerr = err,
               !.rbody = @ + 1]

\* RoundTrip up to the point where the connection is dialled.  New calls
\* are numbered in the order they start.
RoundTrip(i) ==
    /\ call[i].pc = "idle"
    /\ \A j \in Calls : j < i => call[j].pc # "idle"
    /\ \E sizeErr, cancel \in BOOLEAN :
         call' = [call EXCEPT ![i] =
                    IF sizeErr THEN return(@, "nil", "EBodySize")
                    ELSE IF cancel
                    THEN [@ EXCEPT !.pc = "selA", !.cv = "unfired", !.dpc = "ref"]
                    ELSE [@ EXCEPT !.pc = "dial", !.dpc = "ref"]]
    /\ UNCHANGED <<conn, mc, t, now, w, user>>

\* What follows the return of t.dial: RoundTrip checks err and calls
\* roundTrip; the dialer goroutine of roundTripCancel goes on to its CAS.
dialReturn(cl, c, err) ==
    IF cl.cv = "nochan"
    THEN IF err # "nil" THEN [return(cl, "nil", err) EXCEPT !.dpc = "end"]
         ELSE [cl EXCEPT !.dpc = "end", !.pc = "exch", !.bc = c, !.xpc = "hdr"]
    ELSE [cl EXCEPT !.dpc = "cas", !.dc = c, !.derr = err]

\* dial: the scheme switch, defaultPort and the read of the map field
\* (the argument of takeIdle, evaluated before the mutex is taken).
dialReq(i, scheme, remote) ==
    /\ call[i].dpc = "ref"
    /\ call' = [call EXCEPT ![i] =
           CASE scheme = "http" ->
                  [@ EXCEPT !.dpc = "take", !.dtls = FALSE,
                            !.req = <<scheme, remote>>,
                            !.daddr = defaultPort(remote, "80"),
                            !.dref = IF t.idleTCP.nil THEN "nil" ELSE "cur"]
             [] scheme = "https" ->
                  [@ EXCEPT !.dpc = "take", !.dtls = TRUE,
                            !.req = <<scheme, remote>>,
                            !.daddr = defaultPort(remote, "443"),
                            !.dref = IF t.idleTLS.nil THEN "nil" ELSE "cur"]
             [] OTHER -> dialReturn([@ EXCEPT !.req = <<scheme, remote>>],
                                    Nil, "ErrUnsupportedScheme")]
    /\ UNCHANGED <<conn, mc, t, now, w, user>>

dial(i) == \E scheme \in Schemes, remote \in Remotes : dialReq(i, scheme, remote)

\* takeIdle, under the mutex, on the map the caller read.
takeIdle(i) ==
    /\ call[i].dpc = "take"
    /\ LET d == call[i]
           m == idleMap(t, d.dtls).m
           c == IF d.dref = "cur" THEN m[d.daddr] ELSE Nil
       IN  IF c = Nil
           THEN /\ call' = [call EXCEPT ![i].dpc = "raw", ![i].dref = "none"]
                /\ UNCHANGED <<conn, t>>
           ELSE /\ t' = IF d.dtls
                        THEN [t EXCEPT !.idleTLS.m[d.daddr] = conn[c].next]
                        ELSE [t EXCEPT !.idleTCP.m[d.daddr] = conn[c].next]
                /\ conn' = [conn EXCEPT ![c].next = Nil]
                /\ call' = [call EXCEPT
                              ![i] = dialReturn([@ EXCEPT !.dref = "none"], c, "nil")]
    /\ UNCHANGED <<mc, now, w, user>>

Unmade == {c \in Conns : ~conn[c].made}

\* The name of the next connection caller i constructs.
newId(i) ==
    IF i \in Unmade THEN i ELSE CHOOSE c \in Unmade : \A d \in Unmade : c <= d

\* dial: the caller-supplied dial function and newConn (the dial function
\* fails once NumConns connections have been made).
dialRaw(i) ==
    /\ call[i].dpc = "raw"
    /\ \E ok \in {b \in BOOLEAN : b => Unmade # {}} :
         IF ok
         THEN /\ conn' = newConn(conn, newId(i), call[i].dtls, call[i].daddr)
              /\ call' = [call EXCEPT ![i] = dialReturn(@, newId(i), "nil")]
         ELSE /\ call' = [call EXCEPT ![i] = dialReturn(@, Nil, "EDial")]
              /\ UNCHANGED conn
    /\ UNCHANGED <<mc, t, now, w, user>>

\* A dialer that drops the connection when it loses the CAS.
dialerCASLeak(i) ==
    /\ call[i].dpc = "cas"
    /\ call' = [call EXCEPT ![i] =
                  IF @.syn = 0 THEN [@ EXCEPT !.syn = 1, !.dpc = "send"]
                  ELSE [@ EXCEPT !.dpc = "end"]]
    /\ UNCHANGED <<conn, mc, t, now, w, user>>

\* The dialer goroutine after t.dial: the compare-and-swap on syn.
dialerCAS(i) ==
    /\ call[i].dpc = "cas"
    /\ call' = [call EXCEPT ![i] =
                  IF @.syn = 0 THEN [@ EXCEPT !.syn = 1, !.dpc = "send"]
                  ELSE IF @.derr = "nil" THEN [@ EXCEPT !.dpc = "put"]
                  ELSE [@ EXCEPT !.dpc = "end"]]
    /\ UNCHANGED <<conn, mc, t, now, w, user>>

\* ch <- baton{c: c, e: err}
dialerSend(i) ==
    /\ call[i].dpc = "send"
    /\ Len(call[i].ch) < 1
    /\ call' = [call EXCEPT
                  ![i].ch = Append(@, [c |-> call[i].dc, r |-> "nil",
                                       e |-> call[i].derr]),
                  ![i].dpc = "end"]
    /\ UNCHANGED <<conn, mc, t, now, w, user>>

\* The dialer lost the CAS: t.putIdle(c).
dialerPut(i) ==
    /\ call[i].dpc = "put"
    /\ putIdle(call[i].dc)
    /\ call' = [call EXCEPT ![i].dpc = "end", ![i].parkA = Append(@, "dialer")]
    /\ UNCHANGED <<mc, now, w, user>>

\* The values the cancel channel may deliver: a nil error or an error.
CancelValues == {"nil", "ECancel"}

\* First select, case err := <-cancel.  The channel delivers at most one
\* value; when it was sent is not observable before this receive.
selectCancelA(i) ==
    /\ call[i].pc = "selA"
    /\ call[i].cv = "unfired"
    /\ \E v \in CancelValues :
         call' = [call EXCEPT ![i].pc = "casA", ![i].got = v,
                              ![i].cv = "taken", ![i].wonA = TRUE]
    /\ UNCHANGED <<conn, mc, t, now, w, user>>

\* The caller's compare-and-swap; it returns right away when it wins.
callerCAS(i) ==
    /\ call[i].pc = "casA"
    /\ call' = [call EXCEPT ![i] =
                  IF @.syn = 0
                  THEN return([@ EXCEPT !.syn = 1], "nil", cancelErr(@.got))
                  ELSE [@ EXCEPT !.pc = "recvA"]]
    /\ UNCHANGED <<conn, mc, t, now, w, user>>

\* The caller lost the CAS: b := <-ch, putIdle(b.c) if there is one.
callerRecycle(i) ==
    /\ call[i].pc = "recvA"
    /\ call[i].ch # <<>>
    /\ LET b == Head(call[i].ch)
           cl == return([call[i] EXCEPT !.ch = Tail(@)], "nil",
                        cancelErr(call[i].got))
       IN  IF b.c # Nil
           THEN /\ putIdle(b.c)
                /\ call' = [call EXCEPT
                              ![i] = [cl EXCEPT !.parkA = Append(@, "caller")]]
           ELSE /\ call' = [call EXCEPT ![i] = cl]
                /\ UNCHANGED <<conn, t>>
    /\ UNCHANGED <<mc, now, w, user>>

\* A first select that looks at the baton and leaves it in the channel.
selectDialedPeek(i) ==
    /\ call[i].pc = "selA"
    /\ call[i].ch # <<>>
    /\ LET b == Head(call[i].ch)
       IN  call' = [call EXCEPT ![i] =
                      IF b.e # "nil"
                      THEN return(@, "nil", b.e)
                      ELSE [@ EXCEPT !.pc = "selB", !.bc = b.c, !.xpc = "hdr"]]
    /\ UNCHANGED <<conn, mc, t, now, w, user>>

\* First select, case b := <-ch: return the dial error or start the
\* goroutine that runs roundTrip.
selectDialed(i) ==
    /\ call[i].pc = "selA"
    /\ call[i].ch # <<>>
    /\ LET b == Head(call[i].ch)
       IN  call' = [call EXCEPT ![i] =
                      IF b.e # "nil"
                      THEN return([@ EXCEPT !.ch = Tail(@)], "nil", b.e)
                      ELSE [@ EXCEPT !.ch = Tail(@), !.pc = "selB",
                                     !.bc = b.c, !.xpc = "hdr"]]
    /\ UNCHANGED <<conn, mc, t, now, w, user>>

\* Second select, case err := <-cancel: c.Close() on the variable c
\* declared in roundTripCancel.  Nothing ever assigns it (the dialer
\* goroutine declares its own c), so the call dereferences nil and
\* panics.  The panic unwinds RoundTrip, which runs its deferred call and
\* returns nothing; the other goroutines run on for as long as the
\* process does.
selectCancelB(i) ==
    /\ call[i].pc = "selB"
    /\ call[i].cv = "unfired"
    /\ \E v \in CancelValues :
         LET cl == [call[i] EXCEPT !.cv = "taken", !.wonB = TRUE]
         IN  IF cl.c = Nil
             THEN /\ call' = [call EXCEPT ![i] = [cl EXCEPT !.pc = "panic",
                                                            !.rbody = @ + 1]]
                  /\ UNCHANGED conn
             ELSE /\ conn' = Close(conn, cl.c)
                  /\ call' = [call EXCEPT
                                ![i] = return([cl EXCEPT !.got = v], "nil",
                                              cancelErr(v))]
    /\ UNCHANGED <<mc, t, now, w, user>>

\* Second select, case b := <-ch: return b.r, b.e.
selectResult(i) ==
    /\ call[i].pc = "selB"
    /\ call[i].ch # <<>>
    /\ LET b == Head(call[i].ch)
       IN  call' = [call EXCEPT ![i] = return([@ EXCEPT !.ch = Tail(@)], b.r, b.e)]
    /\ UNCHANGED <<conn, mc, t, now, w, user>>

-----------------------------------------------------------------------------
\* roundTrip, the exchange on connection call[i].bc.  In RoundTrip the
\* caller runs it; in roundTripCancel a goroutine of its own does.

rep(reuse) == IF reuse THEN "yes" ELSE "no"

\* A body whose reuse field forgets the Unbounded size.
bodyReuseAnySize(closing, rsize) == ~closing

\* What the response body's reuse field is set to.
bodyReuse(closing, rsize) == ~closing /\ rsize # "unbounded"

\* WriteRequestHeader and Flush, then the writer-half: with no request
\* body maybeClose(reuse) at once, else the goroutine that writes it.
writeHeader(i) ==
    /\ call[i].xpc = "hdr"
    /\ \E out \in {"ok", "EWriteHeader", "EFlush"} :
         IF out # "ok"
         THEN /\ call' = [call EXCEPT ![i].xpc = "ret", ![i].xe = out]
              /\ UNCHANGED <<conn, mc>>
         ELSE \E wsize \in {"zero", "some"}, reuse \in BOOLEAN :
                IF wsize # "zero"
                THEN /\ call' = [call EXCEPT ![i].xpc = "read",
                                             ![i].wpc = "write"]
                     /\ UNCHANGED <<conn, mc>>
                ELSE /\ conn' = swapState(conn, call[i].bc, reuse)
                     /\ mc' = [mc EXCEPT
                                 ![i]["x"] = afterSwap(conn, call[i].bc, reuse)]
                     /\ call' = [call EXCEPT ![i].xpc = "read",
                                             ![i].wrep = rep(reuse)]
    /\ UNCHANGED <<t, now, w, user>>

\* The request body goroutine: WriteBody, Flush, maybeClose.  Its
\* argument reuse (whether the request asked to close) is read only here.
writeBody(i) ==
    /\ call[i].wpc = "write"
    /\ \E ok, wreuse \in BOOLEAN :
         LET reuse == ok /\ wreuse
         IN  /\ conn' = swapState(conn, call[i].bc, reuse)
             /\ mc' = [mc EXCEPT ![i]["w"] = afterSwap(conn, call[i].bc, reuse)]
             /\ call' = [call EXCEPT ![i].wpc = "done", ![i].wrep = rep(reuse)]
    /\ UNCHANGED <<t, now, w, user>>

\* ReadResponseHeader and ResponseBodySize, then the reader-half: a body
\* is attached, or maybeClose(reuse) is called at once.
readResponse(i) ==
    /\ call[i].xpc = "read"
    /\ mc[i]["x"].st = "none"
    /\ \E out \in {"ok", "EReadHeader", "ERespSize"} :
         IF out # "ok"
         THEN /\ call' = [call EXCEPT ![i].xpc = "ret", ![i].xe = out]
              /\ UNCHANGED <<conn, mc>>
         ELSE \E rsize \in {"zero", "exact", "unbounded"}, closing \in BOOLEAN :
                IF rsize # "zero"
                THEN /\ call' = [call EXCEPT
                                   ![i].xpc = "ret", ![i].xr = "resp",
                                   ![i].body = TRUE, ![i].rsize = rsize,
                                   ![i].closing = closing,
                                   ![i].breuse = bodyReuse(closing, rsize)]
                     /\ UNCHANGED <<conn, mc>>
                ELSE /\ conn' = swapState(conn, call[i].bc, ~closing)
                     /\ mc' = [mc EXCEPT
                                 ![i]["x"] = afterSwap(conn, call[i].bc, ~closing)]
                     /\ call' = [call EXCEPT
                                   ![i].xpc = "ret", ![i].xr = "resp",
                                   ![i].rsize = rsize,
                                   ![i].rrep = rep(~closing)]
    /\ UNCHANGED <<t, now, w, user>>

\* maybeClose of the half that finished second: close the connection, or
\* clear the deadline and reset the state before parking it.
maybeClose(i, k) ==
    /\ mc[i][k].st = "term"
    /\ IF recycle(mc[i][k].reuse, mc[i][k].prev)
       THEN /\ conn' = [conn EXCEPT ![call[i].bc].state = 0,
                                     ![call[i].bc].deadline = 0]
            /\ mc' = [mc EXCEPT ![i][k].st = "put"]
            /\ UNCHANGED call
       ELSE /\ conn' = Close(conn, call[i].bc)
            /\ mc' = [mc EXCEPT ![i][k] = NoMC]
            /\ call' = [call EXCEPT ![i].closes = @ + 1]
    /\ UNCHANGED <<t, now, w, user>>

\* maybeClose: c.t.putIdle(c).
maybeClosePut(i, k) ==
    /\ mc[i][k].st = "put"
    /\ putIdle(call[i].bc)
    /\ mc' = [mc EXCEPT ![i][k] = NoMC]
    /\ call' = [call EXCEPT ![i].parks = @ + 1]
    /\ UNCHANGED <<now, w, user>>

\* RoundTrip after roundTrip returned: close the connection on an error.
plainReturn(i) ==
    /\ call[i].pc = "exch"
    /\ call[i].xpc = "ret"
    /\ mc[i]["x"].st = "none"
    /\ IF call[i].xe # "nil"
       THEN /\ conn' = Close(conn, call[i].bc)
            /\ call' = [call EXCEPT
                          ![i] = return([@ EXCEPT !.xpc = "done",
                                                  !.closes = @ + 1],
                                        "nil", call[i].xe)]
       ELSE /\ call' = [call EXCEPT
                          ![i] = return([@ EXCEPT !.xpc = "done"],
                                        call[i].xr, call[i].xe)]
            /\ UNCHANGED conn
    /\ UNCHANGED <<mc, t, now, w, user>>

\* The roundTrip goroutine of roundTripCancel: ch <- baton{r: resp, e: err}
exchangeSend(i) ==
    /\ call[i].pc # "exch"
    /\ call[i].xpc = "ret"
    /\ mc[i]["x"].st = "none"
    /\ Len(call[i].ch) < 1
    /\ call' = [call EXCEPT
                  ![i].ch = Append(@, [c |-> Nil, r |-> call[i].xr,
                                       e |-> call[i].xe]),
                  ![i].xpc = "done"]
    /\ UNCHANGED <<conn, mc, t, now, w, user>>

-----------------------------------------------------------------------------
\* body.go: the user of a returned response body.

\* The reuse argument body.Close hands to maybeClose.
closeReuse(reuse, err) == reuse /\ err = "EOF"

\* body.Read: the sticky error if there is one; else the read ends in
\* io.EOF or in another error that is no timeout, which becomes sticky
\* (reads that return data or time out leave the body as it is).  late
\* records that the raw stream was used after the body was closed.
Read(i) ==
    /\ call[i].returned /\ call[i].rresp = "resp" /\ call[i].body
    /\ mc[i]["u"].st = "none"
    /\ IF call[i].berr # "nil" THEN UNCHANGED call
       ELSE \E e \in {"EOF", "EBody"} :
              call' = [call EXCEPT ![i].berr = e,
                                   ![i].late = @ \/ call[i].bclosed]
    /\ UNCHANGED <<conn, mc, t, now, w>>

\* The deadlines a user sets: none (the zero time) or one.
Deadlines == {0, 1}

\* body.SetReadDeadline: nothing with a sticky error, else the deadline of
\* the raw stream is set.
SetReadDeadline(i) ==
    /\ call[i].returned /\ call[i].rresp = "resp" /\ call[i].body
    /\ mc[i]["u"].st = "none"
    /\ IF call[i].berr # "nil" THEN UNCHANGED <<call, conn>>
       ELSE \E d \in Deadlines :
              /\ conn' = [conn EXCEPT ![call[i].bc].deadline = d]
              /\ call' = [call EXCEPT ![i].late = @ \/ call[i].bclosed]
    /\ UNCHANGED <<mc, t, now, w>>

\* A body.Close that reports to maybeClose every time it is called.
CloseEveryTime(i) ==
    /\ call[i].returned /\ call[i].rresp = "resp" /\ call[i].body
    /\ mc[i]["u"].st = "none"
    /\ LET err == IF call[i].berr = "nil" THEN "ErrReadAfterClose"
                  ELSE call[i].berr
           reuse == closeReuse(call[i].breuse, err)
       IN  /\ conn' = swapState(conn, call[i].bc, reuse)
           /\ mc' = [mc EXCEPT ![i]["u"] = afterSwap(conn, call[i].bc, reuse)]
           /\ call' = [call EXCEPT ![i].berr = err, ![i].bclosed = TRUE,
                                   ![i].rrep = rep(reuse),
                                   ![i].ucalls = @ + 1]
    /\ UNCHANGED <<t, now, w>>

\* body.Close: the sticky error is set if there is none, and the first
\* call reports to maybeClose.  ucalls counts these reports.
BodyClose(i) ==
    /\ call[i].returned /\ call[i].rresp = "resp" /\ call[i].body
    /\ mc[i]["u"].st = "none"
    /\ LET err == IF call[i].berr = "nil" THEN "ErrReadAfterClose"
                  ELSE call[i].berr
           reuse == closeReuse(call[i].breuse, err)
       IN  IF ~call[i].bclosed
           THEN /\ conn' = swapState(conn, call[i].bc, reuse)
                /\ mc' = [mc EXCEPT ![i]["u"] = afterSwap(conn, call[i].bc, reuse)]
                /\ call' = [call EXCEPT ![i].berr = err, ![i].bclosed = TRUE,
                                        ![i].rrep = rep(reuse),
                                        ![i].ucalls = @ + 1]
           ELSE /\ call' = [call EXCEPT ![i].berr = err]
                /\ UNCHANGED <<conn, mc>>
    /\ UNCHANGED <<t, now, w>>

\* The user of the body, unobserved ...
bodyRead(i) == Read(i) /\ UNCHANGED user

bodyClose(i) == BodyClose(i) /\ UNCHANGED user

\* ... and observed: user counts the calls made after the first Close (up
\* to MaxAfter of each).
after(i, n) == IF call[i].bclosed /\ n < MaxAfter THEN n + 1 ELSE n

UserRead(i) ==
    /\ Read(i)
    /\ user' = [user EXCEPT ![i].reads = after(i, @)]

UserSetReadDeadline(i) ==
    /\ SetReadDeadline(i)
    /\ user' = [user EXCEPT ![i].deadlines = after(i, @)]

UserClose(i) ==
    /\ BodyClose(i)
    /\ user' = [user EXCEPT ![i].closes = after(i, @)]

-----------------------------------------------------------------------------

\* The idle pool on its own: callers that dial, use the connection and hand
\* it to putIdle or close it, again and again.

\* A caller starts a round-trip without a cancel channel.
PoolCall(i) ==
    /\ call[i].pc \in {"idle", "done"}
    /\ call' = [call EXCEPT ![i] = [call0 EXCEPT !.pc = "dial", !.dpc = "ref"]]
    /\ UNCHANGED <<conn, mc, t, now, w, user>>

PoolDial(i) ==
    \E scheme \in PoolSchemes, remote \in PoolRemotes : dialReq(i, scheme, remote)

\* The clock of the pool runs to MaxPoolTime; a connection is parked only
\* while the clock can still reach the end of its keep-alive time.
CanExpire == now + KeepAliveTimeout < MaxPoolTime

\* The exchange in one step, up to its terminal action: maybeClose parks
\* the connection (both halves reported reuse) or closes it.
PoolExchange(i) ==
    /\ call[i].pc = "exch"
    /\ call[i].xpc = "hdr"
    /\ \E reuse \in {b \in BOOLEAN : b => CanExpire} :
         IF reuse
         THEN putIdle(call[i].bc)
         ELSE /\ conn' = Close(conn, call[i].bc)
              /\ UNCHANGED t
    /\ call' = [call EXCEPT ![i] = [call0 EXCEPT !.pc = "done"]]
    /\ UNCHANGED <<mc, now, w, user>>

PoolTick == TickTo(MaxPoolTime)

PoolNext ==
    \/ \E i \in Calls : PoolCall(i)
    \/ \E i \in Calls : PoolDial(i)
    \/ \E i \in Calls : takeIdle(i)
    \/ \E i \in Calls : dialRaw(i)
    \/ \E i \in Calls : PoolExchange(i)
    \/ clean
    \/ PoolTick

PoolSpec == Init /\ [][PoolNext]_vars

\* The same callers on the plain-TCP map alone, with the scheduling the
\* reaper relies on: its ticker keeps firing and the clock keeps advancing.
ReaperDial(i) == \E remote \in PoolRemotes : dialReq(i, "http", remote)

ReaperNext ==
    \/ \E i \in Calls : PoolCall(i)
    \/ \E i \in Calls : ReaperDial(i)
    \/ \E i \in Calls : takeIdle(i)
    \/ \E i \in Calls : dialRaw(i)
    \/ \E i \in Calls : PoolExchange(i)
    \/ clean
    \/ PoolTick

ReaperSpec ==
    Init /\ [][ReaperNext]_vars /\ WF_vars(clean) /\ WF_vars(PoolTick)

-----------------------------------------------------------------------------
\* transport.go, the RoundTrip that takes a deadline instead of a cancel
\* channel.  Its dial, pool and maybeClose are those above; dl is the
\* deadline argument ("zero" or "set"), the deadline of a raw stream is 0
\* (none) or 1 (the argument), and hdl is what it was when the request
\* header was written.

DeadlineCalls == {1}

DeadlineRoundTrip(i) ==
    /\ call[i].pc = "idle"
    /\ \E sizeErr \in BOOLEAN, dl \in {"zero", "set"} :
         call' = [call EXCEPT ![i] =
                    IF sizeErr THEN return([@ EXCEPT !.dl = dl], "nil", "EBodySize")
                    ELSE [@ EXCEPT !.pc = "dial", !.dpc = "ref", !.dl = dl]]
    /\ UNCHANGED <<conn, mc, t, now, w, user>>

\* Enforce the deadline: c.raw.SetReadDeadline(deadline) unless it is
\* zero; on an error RoundTrip returns it.
enforceDeadline(i) ==
    /\ call[i].pc = "exch" /\ call[i].xpc = "hdr"
    /\ \E ok \in BOOLEAN :
         IF call[i].dl = "zero"
         THEN /\ call' = [call EXCEPT ![i].xpc = "dhdr"]
              /\ UNCHANGED conn
         ELSE IF ok
         THEN /\ conn' = [conn EXCEPT ![call[i].bc].deadline = 1]
              /\ call' = [call EXCEPT ![i].xpc = "dhdr"]
         ELSE /\ call' = [call EXCEPT
                            ![i] = return([@ EXCEPT !.xpc = "done"], "nil",
                                          "ESetDeadline")]
              /\ UNCHANGED conn
    /\ UNCHANGED <<mc, t, now, w, user>>

\* WriteRequestHeader and Flush (c.Close() and return on an error), then
\* the writer-half as in roundTrip.
deadlineWriteHeader(i) ==
    /\ call[i].xpc = "dhdr"
    /\ \E out \in {"ok", "EWriteHeader", "EFlush"} :
         IF out # "ok"
         THEN /\ conn' = Close(conn, call[i].bc)
              /\ call' = [call EXCEPT
                            ![i] = return([@ EXCEPT !.xpc = "done", !.xe = out,
                                                    !.closes = @ + 1], "nil", out)]
              /\ UNCHANGED mc
         ELSE \E wsize \in {"zero", "some"}, reuse \in BOOLEAN :
                IF wsize # "zero"
                THEN /\ call' = [call EXCEPT
                                   ![i].xpc = "dread", ![i].wpc = "write",
                                   ![i].hdl = conn[call[i].bc].deadline]
                     /\ UNCHANGED <<conn, mc>>
                ELSE /\ conn' = swapState(conn, call[i].bc, reuse)
                     /\ mc' = [mc EXCEPT
                                 ![i]["x"] = afterSwap(conn, call[i].bc, reuse)]
                     /\ call' = [call EXCEPT
                                   ![i].xpc = "dread", ![i].wrep = rep(reuse),
                                   ![i].hdl = conn[call[i].bc].deadline]
    /\ UNCHANGED <<t, now, w, user>>

\* ReadResponseHeader and ResponseBodySize: c.Close() and return on an
\* error.
deadlineReadResponse(i) ==
    /\ call[i].xpc = "dread"
    /\ mc[i]["x"].st = "none"
    /\ \E out \in {"ok", "EReadHeader", "ERespSize"} :
         IF out # "ok"
         THEN /\ conn' = Close(conn, call[i].bc)
              /\ call' = [call EXCEPT
                            ![i] = return([@ EXCEPT !.xpc = "done", !.xe = out,
                                                    !.closes = @ + 1], "nil", out)]
         ELSE /\ call' = [call EXCEPT ![i].xpc = "dclear"]
              /\ UNCHANGED conn
    /\ UNCHANGED <<mc, t, now, w, user>>

\* "Clear the deadline we set earlier": c.raw.SetReadDeadline(deadline),
\* with the deadline RoundTrip was given, unless that is zero; on an error
\* RoundTrip returns it.  Then the reader-half: a response without body
\* calls maybeClose, one with a body is returned with the body attached.
clearDeadline(i) ==
    /\ call[i].xpc = "dclear"
    /\ \E ok \in BOOLEAN :
         IF call[i].dl = "set" /\ ~ok
         THEN /\ call' = [call EXCEPT
                            ![i] = return([@ EXCEPT !.xpc = "done"], "nil",
                                          "ESetDeadline")]
              /\ UNCHANGED <<conn, mc>>
         ELSE LET c == call[i].bc
                  cn == IF call[i].dl = "set"
                        THEN [conn EXCEPT ![c].deadline = 1] ELSE conn
              IN  \E rsize \in {"zero", "exact", "unbounded"}, closing \in BOOLEAN :
                    IF rsize # "zero"
                    THEN /\ conn' = cn
                         /\ call' = [call EXCEPT
                                ![i] = return([@ EXCEPT
                                          !.xpc = "done", !.xr = "resp",
                                          !.body = TRUE, !.rsize = rsize,
                                          !.closing = closing,
                                          !.breuse = bodyReuse(closing, rsize)],
                                        "resp", "nil")]
                         /\ UNCHANGED mc
                    ELSE /\ conn' = swapState(cn, c, ~closing)
                         /\ mc' = [mc EXCEPT ![i]["x"] = afterSwap(cn, c, ~closing)]
                         /\ call' = [call EXCEPT
                                       ![i].xpc = "ret", ![i].xr = "resp",
                                       ![i].rsize = rsize,
                                       ![i].rrep = rep(~closing)]
    /\ UNCHANGED <<t, now, w, user>>

DeadlineNext ==
    \/ \E i \in DeadlineCalls : DeadlineRoundTrip(i)
    \/ \E i \in DeadlineCalls : dial(i)
    \/ \E i \in DeadlineCalls : takeIdle(i)
    \/ \E i \in DeadlineCalls : dialRaw(i)
    \/ \E i \in DeadlineCalls : enforceDeadline(i)
    \/ \E i \in DeadlineCalls : deadlineWriteHeader(i)
    \/ \E i \in DeadlineCalls : writeBody(i)
    \/ \E i \in DeadlineCalls : deadlineReadResponse(i)
    \/ \E i \in DeadlineCalls : clearDeadline(i)
    \/ \E i \in DeadlineCalls, k \in Tasks : maybeClose(i, k)
    \/ \E i \in DeadlineCalls, k \in Tasks : maybeClosePut(i, k)
    \/ \E i \in DeadlineCalls : plainReturn(i)
    \/ \E i \in DeadlineCalls : bodyRead(i)
    \/ \E i \in DeadlineCalls : bodyClose(i)
    \/ clean
    \/ Tick

DeadlineSpec == Init /\ [][DeadlineNext]_vars

-----------------------------------------------------------------------------
\* middleware.go.  A RoundTripper is Base (the transport) or the pair
\* <<fn, rt>> for &wrapped{fn, rt}.  A Middleware is known by its name and
\* by what it does with next: "pass" returns next.RoundTrip(req), "stop"
\* returns an error of its own without calling next.

Base == <<"transport">>

Middlewares == {[id |-> x, kind |-> k] : x \in {"a", "b", "c"}, k \in {"pass", "stop"}}

RECURSIVE SeqsUpTo(_, _)
SeqsUpTo(S, n) ==
    IF n = 0 THEN {<<>>}
    ELSE SeqsUpTo(S, n - 1) \cup
         {<<x>> \o q : x \in S, q \in {r \in SeqsUpTo(S, n - 1) : Len(r) = n - 1}}

\* A Wrap whose loop runs from the first middleware to the last.
RECURSIVE wrapUp(_, _, _)
wrapUp(rt, m, i) ==
    IF i > Len(m) THEN rt ELSE wrapUp(<<m[i], rt>>, m, i + 1)

WrapAscending(rt, m) == wrapUp(rt, m, 1)

\* Wrap: the loop from the last middleware down to the first.
RECURSIVE wrapLoop(_, _, _)
wrapLoop(rt, m, i) ==
    IF i < 1 THEN rt ELSE wrapLoop(<<m[i], rt>>, m, i - 1)

Wrap(rt, m) == wrapLoop(rt, m, Len(m))

\* The program builds the chain and calls RoundTrip(req) on the result.
WrapCall ==
    /\ w.pc = "wrap"
    /\ w' = [w EXCEPT !.pc = "call", !.rt = Wrap(Base, w.m),
                      !.cur = Wrap(Base, w.m)]
    /\ UNCHANGED <<call, conn, mc, t, now, user>>

\* wrapped.RoundTrip: w.fn(req, w.rt), and what the middleware does.
wrappedRoundTrip ==
    /\ w.pc = "call"
    /\ Len(w.cur) = 2
    /\ LET fn == w.cur[1]
           rt == w.cur[2]
           seen == Append(w.trace, [fn |-> fn.id, req |-> "req", next |-> rt])
       IN  w' = IF fn.kind = "pass"
                THEN [w EXCEPT !.trace = seen, !.cur = rt]
                ELSE [w EXCEPT !.trace = seen, !.cur = <<>>, !.pc = "done",
                               !.ret = "err"]
    /\ UNCHANGED <<call, conn, mc, t, now, user>>

\* The RoundTrip of the wrapped transport itself.
baseRoundTrip ==
    /\ w.pc = "call"
    /\ w.cur = Base
    /\ w' = [w EXCEPT !.trace = Append(@, [fn |-> "transport", req |-> "req",
                                           next |-> <<>>]),
                      !.cur = <<>>, !.pc = "done", !.ret = "resp"]
    /\ UNCHANGED <<call, conn, mc, t, now, user>>

WrapInit ==
    /\ TransportInit
    /\ w \in {[w0 EXCEPT !.pc = "wrap", !.m = m] : m \in SeqsUpTo(Middlewares, MaxChain)}

WrapNext == WrapCall \/ wrappedRoundTrip \/ baseRoundTrip

WrapSpec == WrapInit /\ [][WrapNext]_vars

-----------------------------------------------------------------------------
\* One round-trip and the user of its response body, observed.

BodyCalls == {1}

BodyNext ==
    \/ \E i \in BodyCalls : RoundTrip(i)
    \/ \E i \in BodyCalls : dial(i)
    \/ \E i \in BodyCalls : takeIdle(i)
    \/ \E i \in BodyCalls : dialRaw(i)
    \/ \E i \in BodyCalls : dialerCAS(i)
    \/ \E i \in BodyCalls : dialerSend(i)
    \/ \E i \in BodyCalls : dialerPut(i)
    \/ \E i \in BodyCalls : selectCancelA(i)
    \/ \E i \in BodyCalls : callerCAS(i)
    \/ \E i \in BodyCalls : callerRecycle(i)
    \/ \E i \in BodyCalls : selectDialed(i)
    \/ \E i \in BodyCalls : selectCancelB(i)
    \/ \E i \in BodyCalls : selectResult(i)
    \/ \E i \in BodyCalls : writeHeader(i)
    \/ \E i \in BodyCalls : writeBody(i)
    \/ \E i \in BodyCalls : readResponse(i)
    \/ \E i \in BodyCalls, k \in Tasks : maybeClose(i, k)
    \/ \E i \in BodyCalls, k \in Tasks : maybeClosePut(i, k)
    \/ \E i \in BodyCalls : plainReturn(i)
    \/ \E i \in BodyCalls : exchangeSend(i)
    \/ \E i \in BodyCalls : UserRead(i)
    \/ \E i \in BodyCalls : UserSetReadDeadline(i)
    \/ \E i \in BodyCalls : UserClose(i)
    \/ clean
    \/ Tick

BodySpec == Init /\ [][BodyNext]_vars

-----------------------------------------------------------------------------
\* One round-trip with the scheduling its goroutines rely on: a goroutine
\* that can send to the channel, or receive from it, does so in the end.

BatonCalls == {1}

BatonNext ==
    \/ \E i \in BatonCalls : RoundTrip(i)
    \/ \E i \in BatonCalls : dial(i)
    \/ \E i \in BatonCalls : takeIdle(i)
    \/ \E i \in BatonCalls : dialRaw(i)
    \/ \E i \in BatonCalls : dialerCAS(i)
    \/ \E i \in BatonCalls : dialerSend(i)
    \/ \E i \in BatonCalls : dialerPut(i)
    \/ \E i \in BatonCalls : selectCancelA(i)
    \/ \E i \in BatonCalls : callerCAS(i)
    \/ \E i \in BatonCalls : callerRecycle(i)
    \/ \E i \in BatonCalls : selectDialed(i)
    \/ \E i \in BatonCalls : selectCancelB(i)
    \/ \E i \in BatonCalls : selectResult(i)
    \/ \E i \in BatonCalls : writeHeader(i)
    \/ \E i \in BatonCalls : writeBody(i)
    \/ \E i \in BatonCalls : readResponse(i)
    \/ \E i \in BatonCalls, k \in Tasks : maybeClose(i, k)
    \/ \E i \in BatonCalls, k \in Tasks : maybeClosePut(i, k)
    \/ \E i \in BatonCalls : plainReturn(i)
    \/ \E i \in BatonCalls : exchangeSend(i)
    \/ \E i \in BatonCalls : bodyRead(i)
    \/ \E i \in BatonCalls : bodyClose(i)
    \/ clean
    \/ Tick

BatonSpec ==
    /\ Init /\ [][BatonNext]_vars
    /\ \A i \in BatonCalls :
          /\ WF_vars(dialerSend(i))
          /\ WF_vars(exchangeSend(i))
          /\ WF_vars(callerRecycle(i))

-----------------------------------------------------------------------------

Next ==
    \/ \E i \in Calls : RoundTrip(i)
    \/ \E i \in Calls : dial(i)
    \/ \E i \in Calls : takeIdle(i)
    \/ \E i \in Calls : dialRaw(i)
    \/ \E i \in Calls : dialerCAS(i)
    \/ \E i \in Calls : dialerSend(i)
    \/ \E i \in Calls : dialerPut(i)
    \/ \E i \in Calls : selectCancelA(i)
    \/ \E i \in Calls : callerCAS(i)
    \/ \E i \in Calls : callerRecycle(i)
    \/ \E i \in Calls : selectDialed(i)
    \/ \E i \in Calls : selectCancelB(i)
    \/ \E i \in Calls : selectResult(i)
    \/ \E i \in Calls : writeHeader(i)
    \/ \E i \in Calls : writeBody(i)
    \/ \E i \in Calls : readResponse(i)
    \/ \E i \in Calls, k \in Tasks : maybeClose(i, k)
    \/ \E i \in Calls, k \in Tasks : maybeClosePut(i, k)
    \/ \E i \in Calls : plainReturn(i)
    \/ \E i \in Calls : exchangeSend(i)
    \/ \E i \in Calls : bodyRead(i)
    \/ \E i \in Calls : bodyClose(i)
    \/ clean
    \/ Tick

Spec == Init /\ [][Next]_vars

-----------------------------------------------------------------------------
\* Properties.

Elems(b) == {b[j] : j \in 1..Len(b)}

\* The idle-pool buckets that link connection c (a bucket counts twice if
\* it links c twice).
Links(c) ==
    LET n(m, a) == Cardinality({j \in 1..Len(Bucket(conn, m, a)) :
                                  Bucket(conn, m, a)[j] = c})
        RECURSIVE sum(_)
        sum(S) == IF S = {} THEN 0
                  ELSE LET a == CHOOSE x \in S : TRUE
                       IN  n(t.idleTCP.m, a) + n(t.idleTLS.m, a) + sum(S \ {a})
    IN  sum(Addrs)

InPool(c) == Links(c) > 0

Live(c) == conn[c].made /\ conn[c].closes = 0

NoMaybeClose(i) == \A k \in Tasks : mc[i][k].st = "none"

\* roundTrip was called for call i (on connection call[i].bc).
Exchanged(i) == call[i].xpc # "off"

HeaderErrors == {"EWriteHeader", "EFlush"}
ExchangeErrors == {"EWriteHeader", "EFlush", "EReadHeader", "ERespSize"}

\* The writer-half is over: the header was never sent, or the half has
\* made its maybeClose call and that call has returned.
WriterDone(i) ==
    \/ call[i].xe \in HeaderErrors
    \/ call[i].wrep # "none" /\ NoMaybeClose(i)

\* The reader-half is over: RoundTrip returned an error, or a response
\* without a body, or the body was closed (and maybeClose has returned).
ReaderDone(i) ==
    /\ NoMaybeClose(i)
    /\ \/ call[i].returned /\ call[i].rerr # "nil"
       \/ call[i].returned /\ call[i].rresp = "resp" /\ ~call[i].body
       \/ call[i].bclosed

\* C1: once both halves of an exchange are over, its connection has been
\* parked or closed, exactly one of the two and exactly once.
C1_OneTerminalAction ==
    \A i \in Calls :
        Exchanged(i) /\ WriterDone(i) /\ ReaderDone(i)
            => call[i].parks + call[i].closes = 1

\* C2: maybeClose parks a connection only if both halves reported
\* reuse=true; once both have reported and one said reuse=false, the
\* connection is closed (once) and is not in the pool.
C2_ParkOnlyIfBothReuse ==
    \A i \in Calls :
        /\ (call[i].parks > 0 \/ \E k \in Tasks : mc[i][k].st = "put")
              => call[i].wrep = "yes" /\ call[i].rrep = "yes"
        /\ ( /\ call[i].wrep # "none" /\ call[i].rrep # "none"
             /\ "no" \in {call[i].wrep, call[i].rrep}
             /\ NoMaybeClose(i) )
              => /\ call[i].parks = 0
                 /\ call[i].closes = 1
                 /\ conn[call[i].bc].closes = 1
                 /\ ~InPool(call[i].bc)

C2_Witness ==
    \E i, j \in Calls :
        /\ call[i].parks = 1 /\ NoMaybeClose(i)
        /\ call[j].wrep = "yes" /\ call[j].rrep = "no" /\ call[j].closes = 1

\* What the spec asks of a body's exchange for the connection to be
\* parked: no closing signal, a size that is not Unbounded, read to EOF.
BodyEligible(i) ==
    ~call[i].closing /\ call[i].rsize # "unbounded" /\ call[i].berr = "EOF"

\* C3: after the close of a response body the connection is parked only
\* if the server did not signal closing, the size is not Unbounded and the
\* body was read to EOF; otherwise the reader-half reports reuse=false and
\* the connection, once the writer-half is over too, is closed, not pooled.
C3_BodyReuse ==
    \A i \in Calls :
        call[i].body /\ call[i].bclosed =>
            /\ (call[i].parks > 0 \/ \E k \in Tasks : mc[i][k].st = "put")
                  => BodyEligible(i)
            /\ ~BodyEligible(i) =>
                  /\ call[i].rrep = "no"
                  /\ WriterDone(i) =>
                        /\ call[i].parks = 0
                        /\ call[i].closes = 1
                        /\ conn[call[i].bc].closes = 1
                        /\ ~InPool(call[i].bc)

C3_Witness ==
    \E i, j \in Calls :
        /\ call[i].body /\ call[i].bclosed /\ call[i].parks = 1
        /\ call[j].body /\ call[j].bclosed /\ call[j].rsize = "unbounded"
        /\ ~call[j].closing /\ call[j].berr = "EOF"
        /\ WriterDone(j) /\ conn[call[j].bc].closes = 1

\* C4: when the cancel wins the first select and the dial produced a
\* connection, the connection is put into the idle pool exactly once, by
\* the caller or by the dialer, and this round-trip never closes it.
C4_CancelDuringDialParks ==
    \A i \in Calls :
        call[i].wonA =>
            /\ Len(call[i].parkA) <= 1
            /\ call[i].closes = 0 /\ call[i].parks = 0 /\ ~Exchanged(i)
            /\ call[i].returned /\ call[i].dpc = "end" =>
                  IF call[i].dc # Nil THEN Len(call[i].parkA) = 1
                  ELSE call[i].parkA = <<>>
            /\ call[i].dpc = "end" /\ call[i].parkA = <<>> /\ call[i].dc # Nil
                  => \/ call[i].pc = "casA"
                     \/ call[i].pc = "recvA" /\ call[i].ch # <<>>

C4_Witness ==
    \E i, j \in Calls :
        /\ call[i].returned /\ call[i].parkA = <<"caller">>
        /\ call[j].returned /\ call[j].parkA = <<"dialer">>

\* C5: a cancel that wins the second select closes the connection and
\* RoundTrip returns a nil response with the cancel error.
C5_CancelDuringExchangeCloses ==
    \A i \in Calls :
        call[i].wonB =>
            /\ call[i].returned
            /\ call[i].rresp = "nil"
            /\ call[i].rerr = cancelErr(call[i].got)
            /\ conn[call[i].bc].closes >= 1

\* C6: the connection of an exchange cancelled in the second select is
\* never in the idle pool afterwards.
C6_CancelledNeverPooled ==
    \A i \in Calls : call[i].wonB => ~InPool(call[i].bc)

\* C7: when the exchange fails (header write, flush, header read, body
\* size), the connection is closed and the error is returned.
C7_ExchangeErrorCloses ==
    \A i \in Calls :
        call[i].returned /\ call[i].xe # "nil" =>
            /\ call[i].rerr = call[i].xe
            /\ conn[call[i].bc].closes >= 1

\* C8: every return of RoundTrip carries a response or an error, and not
\* both.
C8_ResponseXorError ==
    \A i \in Calls :
        call[i].returned => (call[i].rresp = "nil") # (call[i].rerr = "nil")

C8_Witness ==
    \E i, j \in Calls :
        /\ call[i].returned /\ call[i].rresp = "resp" /\ call[i].cv = "unfired"
        /\ call[j].returned /\ call[j].rerr = "ErrNilCancel"

\* C9: when the cancel wins a select, RoundTrip returns the value the
\* channel delivered, ErrNilCancel standing in for nil.
C9_CancelErrorReturned ==
    \A i \in Calls :
        (call[i].wonA \/ call[i].wonB) /\ call[i].pc \notin {"casA", "recvA"}
            => call[i].returned /\ call[i].rerr = cancelErr(call[i].got)

\* Call i still has connection c in its hands: its dialer has not yet
\* handed it over, it travels in the channel, or a half of the exchange
\* (or the code about to dispose of it) may still use it.
Holds(i, c) ==
    \/ call[i].dc = c /\ call[i].dpc \in {"cas", "send", "put"}
    \/ call[i].ch # <<>> /\ Head(call[i].ch).c = c
    \/ /\ call[i].bc = c
       /\ \/ call[i].xpc \in {"hdr", "read"}
          \/ call[i].xpc = "ret" /\ call[i].xe # "nil"
          \/ call[i].wpc = "write"
          \/ ~NoMaybeClose(i)
          \/ call[i].body /\ ~call[i].bclosed

\* C10: every live connection is referenced by exactly one exchange in
\* flight or by exactly one idle-pool bucket.
C10_OneOwner ==
    \A c \in Conns :
        Live(c) => Cardinality({i \in Calls : Holds(i, c)}) + Links(c) = 1

\* Nobody will use connection c again: no call has it in its hands and no
\* bucket of the idle pool links it.
Finished(c) == conn[c].made /\ ~InPool(c) /\ \A i \in Calls : ~Holds(i, c)

\* conn.Close is never called twice on a connection.
ClosedAtMostOnce == \A c \in Conns : conn[c].closes <= 1

\* C11: the buffer of every connection newConn made is returned to the
\* buffer pool exactly once: conn.Close is never called twice on it, and a
\* connection nobody will use again has been closed.
C11_BufferReleasedOnce ==
    /\ ClosedAtMostOnce
    /\ \A c \in Conns : Finished(c) => conn[c].closes = 1

-----------------------------------------------------------------------------
\* Properties of the idle pool.

IdleBucket(tls, a) == Bucket(conn, idleMap(t, tls).m, a)

\* The step is takeIdle's, made for call i.
TakeStep(i) == call[i].dpc = "take" /\ call'[i].dpc # "take"

\* What takeIdle owes call i when the bucket of its key is b: the head,
\* which no other connection of b was parked after, unlinked, and nothing
\* of another key.
TakesHead(i, b) ==
    /\ call'[i].dpc = "end" /\ call'[i].bc = b[1]
    /\ \A j \in 1..Len(b) : conn[b[1]].idleSince >= conn[b[j]].idleSince
    /\ Bucket(conn', idleMap(t', call[i].dtls).m, call[i].daddr) = Tail(b)
    /\ conn'[b[1]].next = Nil
    /\ conn[b[1]].tls = call[i].dtls /\ conn[b[1]].addr = call[i].daddr

\* C12: a dial whose bucket is not empty when takeIdle looks it up returns
\* the head of the bucket (the connection parked last), unlinks it,
\* deletes the key with the last entry and does not call the dial
\* function; the connection was parked under the key asked for.
C12_TakeIdleLIFO ==
    [][\A i \in Calls :
         TakeStep(i) /\ IdleBucket(call[i].dtls, call[i].daddr) # <<>>
            => TakesHead(i, IdleBucket(call[i].dtls, call[i].daddr))]_vars

\* The same for the dials that looked at the map the transport now has.
TakeIdleOnCurrentMap ==
    [][\A i \in Calls :
         ( /\ TakeStep(i) /\ call[i].dref = "cur"
           /\ IdleBucket(call[i].dtls, call[i].daddr) # <<>> )
            => TakesHead(i, IdleBucket(call[i].dtls, call[i].daddr))]_vars

\* C13: in every bucket of both maps the idleSince stamps do not increase
\* from the head to the tail.
C13_StampsDescend ==
    \A tls \in BOOLEAN, a \in Addrs :
        LET b == IdleBucket(tls, a)
        IN  \A j \in 1..(Len(b) - 1) :
                conn[b[j]].idleSince >= conn[b[j + 1]].idleSince

C13_Witness ==
    /\ \E tls \in BOOLEAN, a \in Addrs :
          LET b == IdleBucket(tls, a)
          IN  Len(b) >= 2 /\ conn[b[1]].idleSince > conn[b[2]].idleSince
    /\ \E i \in Calls : call[i].pc = "exch" /\ conn[call[i].bc].idleSince > 0

\* The step is a tick of the reaper: only it changes the pool and leaves
\* every caller where it is.
ReaperStep ==
    /\ now' = now /\ mc' = mc
    /\ \A i \in Calls : [call'[i] EXCEPT !.dref = call[i].dref] = call[i]
    /\ <<conn', t'>> # <<conn, t>>

\* C14: a tick of the reaper closes, once, exactly the pooled connections
\* whose idleSince is before the cutoff and removes them; the others stay
\* in their buckets in their order; an emptied bucket is deleted.
C14_ReaperTick ==
    [][ReaperStep =>
         LET cutoff == now - KeepAliveTimeout
             due(c) == conn[c].idleSince < cutoff
         IN  /\ \A tls \in BOOLEAN, a \in Addrs :
                  LET b == IdleBucket(tls, a)
                      b2 == Bucket(conn', idleMap(t', tls).m, a)
                  IN  /\ b2 = SelectSeq(b, LAMBDA c : ~due(c))
                      /\ b2 = <<>> => idleMap(t', tls).m[a] = Nil
             /\ \A c \in Conns :
                  conn'[c].closes =
                     conn[c].closes + (IF InPool(c) /\ due(c) THEN 1 ELSE 0)]_vars

C14_Witness ==
    \E c, d \in Conns :
        /\ conn[c].reaped /\ conn[c].closes = 1 /\ InPool(d)
        /\ conn[c].tls = conn[d].tls /\ conn[c].addr = conn[d].addr
        /\ conn[d].idleSince > conn[c].idleSince

\* C15: at most one reaper goroutine is active, and t.cleaning is true
\* exactly while one is.
C15_OneReaper == t.cleaners <= 1 /\ (t.cleaning <=> t.cleaners = 1)

C15_Witness ==
    /\ t.cleaning /\ t.cleaners = 1
    /\ \E c \in Conns : conn[c].reaped
    /\ \A i \in Calls : call[i].pc = "exch"

\* C16: with the reaper ticking and the clock advancing, a parked
\* connection does not stay parked for ever (a dial takes it or the reaper
\* closes it); the reaper runs while anything is parked; and once both
\* maps are empty the reaper exits and clears t.cleaning, unless a
\* connection is parked again first.
C16_ParkedLeaves ==
    /\ \A c \in Conns : InPool(c) ~> ~InPool(c)
    /\ [](Pooled => t.cleaning /\ t.cleaners = 1)
    /\ (~Pooled) ~> (~t.cleaning \/ Pooled)

C16_Witness ==
    /\ ~Pooled /\ ~t.cleaning /\ t.cleaners = 0
    /\ \E c \in Conns : conn[c].reaped

\* The port of a scheme.
SchemePort(scheme) == IF scheme = "https" THEN "443" ELSE "80"

\* C17: the address a dial looks up in the idle pool and hands to the dial
\* function is the authority with the port of the scheme appended (443
\* for https, 80 for http) when it names no port, else the authority.
C17_DefaultPort ==
    \A i \in Calls :
        call[i].dpc \in {"take", "raw"} =>
            LET scheme == call[i].req[1]
                remote == call[i].req[2]
            IN  call[i].daddr =
                    IF hasPort(remote) THEN remote
                    ELSE JoinHostPort(remote, SchemePort(scheme))

-----------------------------------------------------------------------------
\* Properties of the response body.

\* The step is a call the user makes on the body of call i after Close.
AfterCloseStep(i) == call[i].bclosed /\ user'[i] # user[i]

\* C18: once a response body is closed it has a sticky error
\* (ErrReadAfterClose, or the error that was sticky before), which every
\* later Read returns; no later Read or SetReadDeadline uses the raw
\* stream or changes the connection; and however often Close is called,
\* it has called maybeClose once.
C18_BodyAfterClose ==
    /\ [](\A i \in Calls :
            call[i].bclosed =>
                call[i].berr # "nil" /\ ~call[i].late /\ call[i].ucalls = 1)
    /\ [][\A i \in Calls :
            /\ ~call[i].bclosed /\ call'[i].bclosed =>
                  call'[i].berr = IF call[i].berr = "nil"
                                  THEN "ErrReadAfterClose" ELSE call[i].berr
            /\ call[i].bclosed => call'[i].berr = call[i].berr
            /\ AfterCloseStep(i) =>
                  call' = call /\ conn' = conn /\ mc' = mc /\ t' = t]_vars

C18_Witness ==
    \E i \in Calls :
        /\ call[i].bclosed /\ call[i].ucalls = 1
        /\ call[i].berr = "ErrReadAfterClose"
        /\ user[i].reads = MaxAfter /\ user[i].closes = MaxAfter
        /\ user[i].deadlines = MaxAfter
        /\ conn[call[i].bc].deadline = 1

-----------------------------------------------------------------------------
\* Properties of the middleware chain.

\* The chain the spec describes: m1 around the chain of the rest.
RECURSIVE Chain(_, _)
Chain(rt, m) == IF m = <<>> THEN rt ELSE <<Head(m), Chain(rt, Tail(m))>>

\* The calls that chain makes: each middleware with the request and the
\* chain of those after it, up to the first that does not call next, and
\* then the transport.
RECURSIVE Calls19(_)
Calls19(m) ==
    IF m = <<>> THEN <<[fn |-> "transport", req |-> "req", next |-> <<>>]>>
    ELSE <<[fn |-> Head(m).id, req |-> "req", next |-> Chain(Base, Tail(m))]>>
         \o (IF Head(m).kind = "pass" THEN Calls19(Tail(m)) ELSE <<>>)

\* C19: Wrap without middleware is the round-tripper itself; RoundTrip on
\* Wrap(base, m1..mk) calls m1 with the request and Wrap(base, m2..mk);
\* Wrap(base, m1..mk) is Wrap(Wrap(base, m2..mk), m1); and middleware that
\* passes the request on is called in the order m1, ..., mk, base, once
\* each.
C19_WrapChain ==
    w.pc \in {"call", "done"} =>
        /\ w.m = <<>> => w.rt = Base
        /\ w.m # <<>> =>
              /\ w.rt = <<Head(w.m), Wrap(Base, Tail(w.m))>>
              /\ w.rt = Wrap(Wrap(Base, Tail(w.m)), <<Head(w.m)>>)
        /\ w.rt = Chain(Base, w.m)
        /\ w.trace = SubSeq(Calls19(w.m), 1, Len(w.trace))
        /\ w.pc = "done" =>
              /\ w.trace = Calls19(w.m)
              /\ w.ret = "resp" <=> \A j \in 1..Len(w.m) : w.m[j].kind = "pass"

C19_Witness ==
    /\ w.pc = "done" /\ w.ret = "resp"
    /\ Len(w.m) = MaxChain /\ Len(w.trace) = MaxChain + 1
    /\ \A j, k \in 1..Len(w.m) : j # k => w.m[j].id # w.m[k].id

-----------------------------------------------------------------------------
\* Properties of the RoundTrip that takes a deadline.

\* C20: called with a deadline, RoundTrip has set the read deadline of the
\* raw stream when it writes the request header, has cleared it when it
\* returns the response, and a connection on which setting the deadline
\* failed is closed or parked.
C20_DeadlineSetAndCleared ==
    \A i \in Calls :
        call[i].dl = "set" =>
            /\ call[i].hdl \in {-1, 1}
            /\ call[i].returned /\ call[i].rresp = "resp"
                  => conn[call[i].bc].deadline = 0
            /\ call[i].returned /\ call[i].rerr = "ESetDeadline"
                  /\ call[i].wpc # "write" /\ NoMaybeClose(i)
                  => conn[call[i].bc].closes >= 1 \/ InPool(call[i].bc)

\* The first part alone: the deadline is set when the header is written.
DeadlineSetBeforeHeader ==
    \A i \in Calls : call[i].dl = "set" => call[i].hdl \in {-1, 1}

\* The second part alone.
DeadlineCleared ==
    \A i \in Calls :
        call[i].dl = "set" /\ call[i].returned /\ call[i].rresp = "resp"
            => conn[call[i].bc].deadline = 0

-----------------------------------------------------------------------------
\* Properties of the two halves of one exchange.

\* The halves of exchange i that have called maybeClose.
Reported(i) ==
    (IF call[i].wrep # "none" THEN 1 ELSE 0) + (IF call[i].rrep # "none" THEN 1 ELSE 0)

\* The calls of conn.Close that maybeClose made for exchange i (RoundTrip
\* makes one of its own when roundTrip returns an error).
ClosedByMaybeClose(i) ==
    call[i].closes -
      (IF call[i].cv = "nochan" /\ call[i].xpc = "done" /\ call[i].xe # "nil"
       THEN 1 ELSE 0)

\* C21: an exchange starts on a connection whose state is 0; the
\* maybeClose whose swap returns 0 does nothing more; the other one parks
\* the connection if both halves said reuse and closes it if not, once; and
\* every connection in the idle pool has state 0.
C21_TwoPhaseRelease ==
    /\ \A c \in Conns : InPool(c) => conn[c].state = 0
    /\ \A i \in Calls :
          /\ call[i].xpc = "hdr" => conn[call[i].bc].state = 0
          /\ \A k \in Tasks : mc[i][k].st # "none" => mc[i][k].prev # 0
          /\ Reported(i) <= 1 =>
                /\ NoMaybeClose(i)
                /\ call[i].parks = 0 /\ ClosedByMaybeClose(i) = 0
          /\ Reported(i) = 2 /\ NoMaybeClose(i) =>
                /\ call[i].parks + ClosedByMaybeClose(i) = 1
                /\ call[i].parks = 1 <=>
                      call[i].wrep = "yes" /\ call[i].rrep = "yes"

\* An exchange has parked its connection, the next one runs on the same
\* connection, and its writer goroutine, second to report, is about to
\* close it.
C21_Witness ==
    \E i, j \in Calls :
        /\ i # j
        /\ Reported(j) = 2 /\ NoMaybeClose(j) /\ call[j].parks = 1
        /\ call[i].bc = call[j].bc
        /\ Reported(i) = 2 /\ call[i].rrep = "yes"
        /\ mc[i]["w"].st = "term" /\ ~mc[i]["w"].reuse
        /\ mc[i]["w"].prev = halfReused

-----------------------------------------------------------------------------
\* Properties of the pool's locking.

\* The map dial read for call i, before takeIdle took the mutex, is the
\* map the transport has now.
RefCurrent(i) ==
    IF idleMap(t, call[i].dtls).nil THEN call[i].dref = "nil"
    ELSE call[i].dref = "cur"

\* C22: the map fields are read under the mutex, so takeIdle never works
\* on a map that the reaper has discarded or that putIdle has replaced.
C22_TakeIdleOnLiveMap ==
    [][\A i \in Calls : TakeStep(i) => RefCurrent(i)]_vars

-----------------------------------------------------------------------------
\* Properties of the connection's buffer.

\* The step is one in which a half of exchange i reads or writes through
\* the buffered reader or writer of its connection: the header is written,
\* the writer goroutine writes the request body, the response header is
\* read, or the user reads the response body.
UseStep(i) ==
    \/ call[i].xpc = "hdr" /\ call'[i].xpc # "hdr"
    \/ call[i].wpc = "write" /\ call'[i].wpc = "done"
    \/ call[i].xpc = "read" /\ call'[i].xpc # "read"
    \/ call[i].body /\ call[i].berr = "nil" /\ call'[i].berr \in {"EOF", "EBody"}

\* The step is the writer goroutine's WriteBody and Flush.
WriterStep(i) == call[i].wpc = "write" /\ call'[i].wpc = "done"

\* C23: no half of an exchange reads or writes through a connection after
\* conn.Close has returned its buffer to the buffer pool.
C23_NoUseAfterClose ==
    [][\A i \in Calls : UseStep(i) => conn[call[i].bc].closes = 0]_vars

\* The same for every use but the writer goroutine's.
ReaderUsesOpenConn ==
    [][\A i \in Calls :
         UseStep(i) /\ ~WriterStep(i) => conn[call[i].bc].closes = 0]_vars

-----------------------------------------------------------------------------
\* Properties of the request body.

\* RoundTrip is over for call i: it returned or panicked.
Over(i) == call[i].returned \/ call[i].pc = "panic"

\* The request body is closed once, when RoundTrip is over.
RequestBodyClosedOnce ==
    \A i \in Calls : call[i].rbody = IF Over(i) THEN 1 ELSE 0

\* C24: the request body is closed exactly once on every return path of
\* RoundTrip, and never while the writer goroutine has yet to finish
\* reading it.
C24_RequestBodyClosed ==
    /\ RequestBodyClosedOnce
    /\ \A i \in Calls : call[i].wpc = "write" => call[i].rbody = 0

-----------------------------------------------------------------------------
\* Properties of the result channel of roundTripCancel.

\* The dialer goroutine of call i is at its send.
AtDialerSend(i) == call[i].dpc = "send"

\* The roundTrip goroutine of call i is at its send.
AtExchangeSend(i) ==
    call[i].cv # "nochan" /\ call[i].xpc = "ret" /\ mc[i]["x"].st = "none"

\* The baton the dialer of call i sends.
DialerBaton(i) == [c |-> call[i].dc, r |-> "nil", e |-> call[i].derr]

\* C25: a goroutine that is at a send to the result channel finds room in
\* it and completes the send; and the caller that lost the
\* compare-and-swap after a cancel receives the baton of the dialer, which
\* has sent it or is about to.
C25_NoBlockedBaton ==
    /\ [](\A i \in Calls :
            /\ Len(call[i].ch) <= 1
            /\ AtDialerSend(i) \/ AtExchangeSend(i) => call[i].ch = <<>>
            /\ call[i].pc = "recvA" =>
                  \/ AtDialerSend(i)
                  \/ call[i].dpc = "end" /\ call[i].ch = <<DialerBaton(i)>>)
    /\ \A i \in Calls :
          /\ AtDialerSend(i) ~> call[i].dpc = "end"
          /\ AtExchangeSend(i) ~> call[i].xpc = "done"
          /\ call[i].pc = "recvA" ~> (call[i].returned /\ call[i].ch = <<>>)

\* The caller lost the compare-and-swap after a cancel, received the
\* dialer's baton and parked the connection in it.
C25_Witness ==
    \E i \in Calls :
        /\ call[i].wonA /\ call[i].returned /\ call[i].syn = 1
        /\ call[i].dpc = "end" /\ call[i].dc # Nil
        /\ call[i].parkA = <<"caller">> /\ call[i].ch = <<>>

====
